---- MODULE Spec2Model ----
(***************************************************************************)
(* Model of the Upstash-compatible Redis HTTP adapter:                     *)
(*   - the command filter (middleware/command-filter, utils/security),     *)
(*   - the configuration loader (config),                                  *)
(*   - the request handlers (routes/commands.ts, utils/parser.ts),         *)
(*   - the connection manager RedisClientManager (redis/client).           *)
(*                                                                         *)
(* JavaScript runs each handler without preemption up to its next await    *)
(* on a connection event.  An action of this model is one such run: the    *)
(* synchronous part of a handler together with every continuation that     *)
(* the same microtask drain executes.                                      *)
(***************************************************************************)
EXTENDS Integers, Sequences, FiniteSets, TLC

VARIABLES
    config,             \* the Config record produced by loadConfig()
    decided,            \* log of the calls of pure functions (SpecFilter, SpecParser)
    client,             \* RedisClientManager.client (connection id, 0 = null)
    connectionPromise,  \* RedisClientManager.connectionPromise
    pool,               \* RedisClientManager.pool (sequence of connection ids)
    poolIndex,          \* RedisClientManager.poolIndex
    conns,              \* status of every store connection ever constructed
    created,            \* number of store connections constructed so far
    procs,              \* the HTTP requests in flight
    served,             \* number of requests received so far
    disc,               \* the disconnect() call in progress, if any
    selLog,             \* slots chosen by the last selections of getPooledClient
    server,             \* the process: "listening", "stopping" (signal received) or "exited"
    hits,               \* rate limiter: requests counted in the current window, per key
    answered            \* log of the requests the server pipeline received (SpecServer)

vars == <<config, decided, client, connectionPromise, pool, poolIndex, conns,
          created, procs, served, disc, selLog, server, hits, answered>>

managerVars == <<client, connectionPromise, pool, poolIndex, conns, created,
                 procs, served, disc, selLog>>

(***************************************************************************)
(* Bounds of the model.                                                    *)
(***************************************************************************)
MaxDecisions == 2   \* validateCommand calls logged under SpecFilter
MaxProcs == 2       \* requests in flight at the same time
MaxRequests == 2    \* requests received in one run
MaxConns == 4       \* store connections constructed in one run
MaxReceived == 2    \* requests logged under SpecServer
MaxBatch == 2       \* commands in one pipeline / transaction body
MaxParsed == 1      \* calls logged under SpecParser
MaxRetries == 5     \* calls of retryStrategy for one connection (SpecRetry)

NULL == "<null>"    \* null / undefined / unset, where the value is a string

(***************************************************************************)
(* Strings.  TLC strings are atomic, so every string the model handles is  *)
(* given its spelling; toUpperCase and trim work on the spelling,          *)
(* character by character, as String.prototype does.                       *)
(***************************************************************************)
CommandNames == {"keys", "Keys", "KEYS", "get", "Get", "GET", "wait", "Wait", "WAIT"}

Strings == CommandNames \cup {" wait", " WAIT", "WAIT ", "wait ", "%"}

Spell(s) ==
    CASE s = "keys"  -> <<"k", "e", "y", "s">>
      [] s = "Keys"  -> <<"K", "e", "y", "s">>
      [] s = "KEYS"  -> <<"K", "E", "Y", "S">>
      [] s = "get"   -> <<"g", "e", "t">>
      [] s = "Get"   -> <<"G", "e", "t">>
      [] s = "GET"   -> <<"G", "E", "T">>
      [] s = "wait"  -> <<"w", "a", "i", "t">>
      [] s = "Wait"  -> <<"W", "a", "i", "t">>
      [] s = "WAIT"  -> <<"W", "A", "I", "T">>
      [] s = " wait" -> <<" ", "w", "a", "i", "t">>
      [] s = " WAIT" -> <<" ", "W", "A", "I", "T">>
      [] s = "WAIT " -> <<"W", "A", "I", "T", " ">>
      [] s = "wait " -> <<"w", "a", "i", "t", " ">>
      [] s = "%"     -> <<"%">>

Unspell(cs) == CHOOSE s \in Strings : Spell(s) = cs

UpperChar(c) ==
    CASE c = "a" -> "A" [] c = "e" -> "E" [] c = "g" -> "G" [] c = "i" -> "I"
      [] c = "k" -> "K" [] c = "s" -> "S" [] c = "t" -> "T" [] c = "w" -> "W"
      [] c = "y" -> "Y" [] OTHER -> c

toUpperCase(s) == Unspell([i \in DOMAIN Spell(s) |-> UpperChar(Spell(s)[i])])

RECURSIVE TrimStart(_)
TrimStart(cs) ==
    IF cs # <<>> /\ Head(cs) = " " THEN TrimStart(Tail(cs)) ELSE cs

RECURSIVE TrimEnd(_)
TrimEnd(cs) ==
    IF cs # <<>> /\ cs[Len(cs)] = " " THEN TrimEnd(SubSeq(cs, 1, Len(cs) - 1)) ELSE cs

trim(s) == Unspell(TrimEnd(TrimStart(Spell(s))))

Includes(list, x) == \E i \in DOMAIN list : list[i] = x

(***************************************************************************)
(* utils/security: the built-in sets.  The model keeps one member of each  *)
(* set (KEYS is dangerous, GET is safe) and one command that is in neither *)
(* (WAIT); membership is all the filter asks of the sets.                  *)
(***************************************************************************)
DANGEROUS_COMMANDS == {"KEYS"}

SAFE_COMMANDS == {"GET"}

isDangerousCommand(command) == toUpperCase(command) \in DANGEROUS_COMMANDS

isSafeCommand(command) == toUpperCase(command) \in SAFE_COMMANDS

(***************************************************************************)
(* config: loadConfig() reads the environment.  A variable is Unset or     *)
(* Set(value); a list is given as the sequence of its comma-separated      *)
(* fields, a number as the number parseInt reads, a node list as its size. *)
(***************************************************************************)
Unset == [set |-> FALSE]

Set(value) == [set |-> TRUE, value |-> value]

\* process.env.X?.split(",").map((c) => c.trim()) ?? []
SplitTrim(var) ==
    IF var = Unset THEN <<>> ELSE [i \in DOMAIN var.value |-> trim(var.value[i])]

loadConfig(env) ==
    [ token |-> IF env.UPSTASH_TOKEN # Unset THEN env.UPSTASH_TOKEN.value
                ELSE IF env.TOKEN # Unset THEN env.TOKEN.value
                ELSE NULL,
      rateLimit |-> [ enabled |-> env.RATE_LIMIT_ENABLED # Set("false"),
                      max |-> IF env.RATE_LIMIT_MAX = Unset THEN 100
                              ELSE env.RATE_LIMIT_MAX.value ],
      commandFilterMode |->
          IF env.COMMAND_FILTER_MODE = Set("allowlist") THEN "allowlist"
          ELSE IF env.COMMAND_FILTER_MODE = Set("none") THEN "none"
          ELSE "blocklist",
      additionalBlockedCommands |-> SplitTrim(env.BLOCKED_COMMANDS),
      additionalAllowedCommands |-> SplitTrim(env.ALLOWED_COMMANDS),
      pool |-> [ enabled |-> env.REDIS_POOL_ENABLED = Set("true"),
                 min |-> IF env.REDIS_POOL_MIN = Unset THEN 2
                         ELSE env.REDIS_POOL_MIN.value,
                 max |-> IF env.REDIS_POOL_MAX = Unset THEN 10
                         ELSE env.REDIS_POOL_MAX.value ],
      cluster |-> [ enabled |-> env.REDIS_CLUSTER_ENABLED = Set("true"),
                    nodes |-> IF env.REDIS_CLUSTER_NODES = Unset THEN 0
                              ELSE env.REDIS_CLUSTER_NODES.value ] ]

DefaultEnv ==
    [ UPSTASH_TOKEN |-> Unset, TOKEN |-> Unset,
      RATE_LIMIT_ENABLED |-> Unset, RATE_LIMIT_MAX |-> Unset,
      COMMAND_FILTER_MODE |-> Unset, BLOCKED_COMMANDS |-> Unset, ALLOWED_COMMANDS |-> Unset,
      REDIS_POOL_ENABLED |-> Unset, REDIS_POOL_MIN |-> Unset, REDIS_POOL_MAX |-> Unset,
      REDIS_CLUSTER_ENABLED |-> Unset, REDIS_CLUSTER_NODES |-> Unset ]

(***************************************************************************)
(* middleware/command-filter                                               *)
(***************************************************************************)
CommandBlockedError(command, reason) ==
    [ name |-> "CommandBlockedError",
      message |-> <<"Command '", command, "' is blocked: ", reason>> ]

Allowed == [ name |-> "ok", message |-> <<>> ]

validateCommandMissingUpper(cfg, command) ==
    LET cmd == command IN
    CASE cfg.commandFilterMode = "blocklist" ->
            IF isDangerousCommand(cmd)
            THEN CommandBlockedError(cmd, "dangerous command blocked for security")
            ELSE IF Includes(cfg.additionalBlockedCommands, cmd)
            THEN CommandBlockedError(cmd, "command blocked by configuration")
            ELSE Allowed
      [] cfg.commandFilterMode = "allowlist" ->
            IF isSafeCommand(cmd) \/ Includes(cfg.additionalAllowedCommands, cmd)
            THEN Allowed
            ELSE CommandBlockedError(cmd, "command not in allowlist")
      [] cfg.commandFilterMode = "none" -> Allowed

validateCommand(cfg, command) ==
    LET cmd == toUpperCase(command) IN
    CASE cfg.commandFilterMode = "blocklist" ->
            IF isDangerousCommand(cmd)
            THEN CommandBlockedError(cmd, "dangerous command blocked for security")
            ELSE IF Includes(cfg.additionalBlockedCommands, cmd)
            THEN CommandBlockedError(cmd, "command blocked by configuration")
            ELSE Allowed
      [] cfg.commandFilterMode = "allowlist" ->
            IF isSafeCommand(cmd) \/ Includes(cfg.additionalAllowedCommands, cmd)
            THEN Allowed
            ELSE CommandBlockedError(cmd, "command not in allowlist")
      [] cfg.commandFilterMode = "none" -> Allowed

\* validateCommands: the first denied command throws; later ones are not looked at.
RECURSIVE validateCommands(_, _)
validateCommands(cfg, commands) ==
    IF commands = <<>> THEN Allowed
    ELSE LET r == validateCommand(cfg, Head(commands)[1]) IN
         IF r # Allowed THEN r ELSE validateCommands(cfg, Tail(commands))

(***************************************************************************)
(* Values the store returns, and utils/parser.serializeResult on them.     *)
(***************************************************************************)
Text(s) == [t |-> "text", v |-> s]

JNull == [t |-> "null"]

Undefined == [t |-> "undefined"]

Num(n) == [t |-> "number", n |-> n]

BigInt(n) == [t |-> "bigint", n |-> n]

\* a Buffer is the sequence of its bytes
Buffer(bytes) == [t |-> "buffer", bytes |-> bytes]

List(items) == [t |-> "array", items |-> items]

\* Buffer.prototype.toString("utf-8"): never throws, a byte sequence that is
\* not UTF-8 decodes to the replacement character
Utf8Decode(bytes) ==
    CASE bytes = <<>> -> ""
      [] bytes = <<79, 75>> -> "OK"
      [] bytes = <<118>> -> "v"
      [] OTHER -> "<U+FFFD>"

RECURSIVE serializeResult(_)

\* serializeResult that leaves the elements of an array as they are
serializeResultShallow(result) ==
    IF result.t \in {"null", "undefined"} THEN JNull
    ELSE IF result.t = "buffer" THEN Text(Utf8Decode(result.bytes))
    ELSE IF result.t = "bigint" THEN Num(result.n)
    ELSE result

serializeResult(result) ==
    IF result.t = "null" THEN JNull
    ELSE IF result.t = "undefined" THEN JNull
    ELSE IF result.t = "buffer" THEN Text(Utf8Decode(result.bytes))
    ELSE IF result.t = "array"
    THEN List([i \in DOMAIN result.items |-> serializeResult(result.items[i])])
    ELSE IF result.t = "bigint" THEN Num(result.n)
    ELSE result

formatSuccess(result) == [kind |-> "result", result |-> serializeResult(result)]

\* formatError(error): error.message of an Error, the text itself otherwise;
\* a message is the sequence of the parts it was concatenated from.
formatError(message) == [kind |-> "error", error |-> message]

formatMultipleResults(results) ==
    [i \in DOMAIN results |->
        IF results[i].err # NULL THEN formatError(<<results[i].err>>)
        ELSE formatSuccess(results[i].value)]

(***************************************************************************)
(* utils/parser: request bodies.  A command array is the sequence of its   *)
(* elements.  An element that is a text is that text; NonString stands for *)
(* an element that is a number, NULL for null, JsonTrue for a boolean and  *)
(* JsonObject for an object.  A batch is the sequence of its elements,     *)
(* each of them a body.  The arguments a path carries after the command    *)
(* name are left out.                                                      *)
(***************************************************************************)
NonString == "<42>"

JsonTrue == "<true>"

JsonObject == "<{}>"

\* typeof x === "string"
IsString(x) == x \notin {NonString, NULL, JsonTrue, JsonObject}

\* typeof x === "number"
IsNumber(x) == x = NonString

\* JSON.stringify(x), the text it returns
JSONstringify(x) ==
    CASE x = NULL -> "null"
      [] x = JsonTrue -> "true"
      [] x = JsonObject -> "{}"
      [] x = NonString -> "42"

Malformed == "%"        \* a path segment decodeURIComponent rejects

ArrayBody(items) == [shape |-> "array", items |-> items]

ObjectBody(command) == [shape |-> "object", command |-> command]

\* { command, args }
ObjectBodyArgs(command, args) == [shape |-> "object", command |-> command, args |-> args]

BatchBody(elems) == [shape |-> "batch", elems |-> elems]

NoBody == [shape |-> "none"]

\* a body that is a text, a number, a boolean or null
ScalarBody == [shape |-> "scalar"]

ParseOk(commands) == [ok |-> TRUE, value |-> commands, error |-> <<>>]

ParseError(message) == [ok |-> FALSE, value |-> <<>>, error |-> message]

parsePathCommand(pathSegments) ==
    IF pathSegments = <<>> THEN ParseError(<<"No command provided">>)
    ELSE IF \E i \in DOMAIN pathSegments : pathSegments[i] = Malformed
    THEN ParseError(<<"URI malformed">>)
    ELSE ParseOk(<<toUpperCase(Head(pathSegments))>>)

\* parseBodyCommand, the args.map callback (lines 61-70)
BodyArg(arg) ==
    IF IsString(arg) \/ IsNumber(arg) THEN arg ELSE JSONstringify(arg)

\* parseBodyCommand on an array (lines 49-73)
parseArray(items) ==
    IF items = <<>> THEN ParseError(<<"Empty command array">>)
    ELSE IF ~IsString(Head(items)) THEN ParseError(<<"Command must be a string">>)
    ELSE ParseOk(<<toUpperCase(Head(items))>>
                 \o [i \in 1 .. Len(items) - 1 |-> BodyArg(items[i + 1])])

parseBodyCommand(body) ==
    CASE body.shape = "array" -> parseArray(body.items)
      [] body.shape = "batch" ->
            \* an array whose first element is an array
            IF body.elems = <<>> THEN ParseError(<<"Empty command array">>)
            ELSE ParseError(<<"Command must be a string">>)
      [] body.shape = "object" /\ IsString(body.command) ->
            parseArray(<<body.command>>
                       \o (IF "args" \in DOMAIN body THEN body.args ELSE <<>>))
      [] OTHER ->
            ParseError(<<"Invalid command format. Expected array or object with command property.">>)

\* body.map(parseBodyCommand): the first element that fails throws
\* "Invalid command at index <i>: <message>" (indices count from 0).
RECURSIVE parseElems(_, _)
parseElems(elems, index) ==
    IF elems = <<>> THEN ParseOk(<<>>)
    ELSE LET one == parseBodyCommand(Head(elems)) IN
         IF ~one.ok
         THEN ParseError(<<"Invalid command at index ", ToString(index), ": ">> \o one.error)
         ELSE LET rest == parseElems(Tail(elems), index + 1) IN
              IF ~rest.ok THEN rest ELSE ParseOk(<<one.value>> \o rest.value)

\* the elements of a body that is an array
ElementsOf(body) ==
    IF body.shape = "batch" THEN body.elems
    ELSE [i \in DOMAIN body.items |-> ScalarBody]

\* the callback that lets a failing element pass as no command
RECURSIVE parseElemsSkipping(_)
parseElemsSkipping(elems) ==
    IF elems = <<>> THEN ParseOk(<<>>)
    ELSE LET one == parseBodyCommand(Head(elems))
             rest == parseElemsSkipping(Tail(elems)) IN
         ParseOk((IF one.ok THEN <<one.value>> ELSE <<>>) \o rest.value)

parseMultipleCommandsPartial(body) ==
    IF body.shape \notin {"batch", "array"} THEN ParseError(<<"Expected array of commands">>)
    ELSE IF ElementsOf(body) = <<>> THEN ParseError(<<"Empty command array">>)
    ELSE parseElemsSkipping(ElementsOf(body))

parseMultipleCommands(body) ==
    IF body.shape \notin {"batch", "array"} THEN ParseError(<<"Expected array of commands">>)
    ELSE IF ElementsOf(body) = <<>> THEN ParseError(<<"Empty command array">>)
    ELSE parseElems(ElementsOf(body), 0)

(***************************************************************************)
(* routes/commands.ts: the part of each handler that runs before the call  *)
(* of redisClient (parse, then filter).  The outcome is either the         *)
(* response of the catch block or the call the handler goes on to make;    *)
(* validated lists the names validateCommand ran on and let pass.          *)
(***************************************************************************)
Response(status, envelope) == [status |-> status, array |-> FALSE, body |-> <<envelope>>]

ArrayResponse(envelopes) == [status |-> 200, array |-> TRUE, body |-> envelopes]

NoResponse == [status |-> 0, array |-> FALSE, body |-> <<>>]

NotThrown == [name |-> "none", message |-> <<>>]

\* thrown is the error the handler caught, if it caught one, and refused the
\* command name validateCommand threw on
Respond(resp, validated, thrown) ==
    [kind |-> "respond", resp |-> resp, op |-> NULL, commands |-> <<>>,
     validated |-> validated, thrown |-> thrown, refused |-> NULL]

Call(op, commands, validated) ==
    [kind |-> "call", resp |-> NoResponse, op |-> op, commands |-> commands,
     validated |-> validated, thrown |-> NotThrown, refused |-> NULL]

\* The names validateCommands let pass before it threw (or all of them).
RECURSIVE passedBefore(_, _)
passedBefore(cfg, commands) ==
    IF commands = <<>> \/ validateCommand(cfg, Head(commands)[1]) # Allowed THEN <<>>
    ELSE <<Head(commands)[1]>> \o passedBefore(cfg, Tail(commands))

\* The text of err.message contains "ERR" or "WRONGTYPE" (commands.ts:200).
IsRedisCommandError(message) ==
    \E i \in DOMAIN message : message[i] \in {"ERR syntax error", "WRONGTYPE"}

\* The catch block of POST /, POST /pipeline and POST /multi-exec.
CatchPostBlockedAs400(err) == Response(400, formatError(err.message))

CatchPost(err) ==
    IF err.name = "CommandBlockedError" THEN Response(403, formatError(err.message))
    ELSE Response(400, formatError(err.message))

\* The catch block of the catch-all route.
CatchPath(err) ==
    IF err.name = "CommandBlockedError" THEN Response(403, formatError(err.message))
    ELSE IF IsRedisCommandError(err.message)
    THEN Response(400, formatError(<<"Redis command error">>))
    ELSE Response(500, formatError(<<"Internal server error">>))

Catch(route, err) == IF route = "/*" THEN CatchPath(err) ELSE CatchPost(err)

Error(message) == [name |-> "Error", message |-> message]

\* validate, then call: shared tail of the four handlers.
FilterThenCallFirstOnly(cfg, route, op, commands) ==
    LET verdict == validateCommand(cfg, Head(commands)[1]) IN
    IF verdict # Allowed
    THEN Respond(Catch(route, verdict), <<>>, verdict)
    ELSE Call(op, commands, <<Head(commands)[1]>>)

\* the call made whatever validateCommands said
FilterThenCallUnfiltered(cfg, route, op, commands) ==
    Call(op, commands, passedBefore(cfg, commands))

FilterThenCall(cfg, route, op, commands) ==
    LET verdict == validateCommands(cfg, commands) IN
    IF verdict # Allowed
    THEN [Respond(Catch(route, verdict), passedBefore(cfg, commands), verdict)
             EXCEPT !.refused = commands[Len(passedBefore(cfg, commands)) + 1][1]]
    ELSE Call(op, commands, passedBefore(cfg, commands))

PostRoot(cfg, body) ==
    LET parsed == parseBodyCommand(body) IN
    IF ~parsed.ok THEN Respond(Catch("/", Error(parsed.error)), <<>>, Error(parsed.error))
    ELSE FilterThenCall(cfg, "/", "execute", <<parsed.value>>)

PostBatch(cfg, route, body) ==
    LET parsed == parseMultipleCommands(body) IN
    IF ~parsed.ok THEN Respond(Catch(route, Error(parsed.error)), <<>>, Error(parsed.error))
    ELSE FilterThenCall(cfg, route,
                        IF route = "/pipeline" THEN "pipeline" ELSE "transaction",
                        parsed.value)

\* the callback of the hybrid form taken to be the one of parseBodyCommand
HybridArgAsBody(arg) == BodyArg(arg)

\* The catch-all route, the body.map callback of the hybrid form (lines 161-169)
HybridArg(arg) ==
    IF IsString(arg) \/ IsNumber(arg) THEN arg
    ELSE IF arg = NULL THEN ""
    ELSE JSONstringify(arg)

\* The catch-all route: the command comes from the path with the args in a
\* body array (hybrid form), from a body object, or from the path alone.
PathCommand(cfg, pathSegments, body) ==
    IF pathSegments = <<>>
    THEN Respond(Response(400, formatError(<<"No command provided">>)), <<>>, NotThrown)
    ELSE IF body.shape = "array" /\ body.items # <<>>
    THEN FilterThenCall(cfg, "/*", "execute",
                        << <<toUpperCase(Head(pathSegments))>>
                           \o [i \in DOMAIN body.items |-> HybridArg(body.items[i])] >>)
    ELSE LET parsed == IF body.shape = "object" THEN parseBodyCommand(body)
                       ELSE parsePathCommand(pathSegments) IN
         IF ~parsed.ok
         THEN Respond(Catch("/*", Error(parsed.error)), <<>>, Error(parsed.error))
         ELSE FilterThenCall(cfg, "/*", "execute", <<parsed.value>>)

Handle(cfg, req) ==
    CASE req.route = "/" -> PostRoot(cfg, req.body)
      [] req.route \in {"/pipeline", "/multi-exec"} -> PostBatch(cfg, req.route, req.body)
      [] req.route = "/*" -> PathCommand(cfg, req.path, req.body)

(***************************************************************************)
(* index.ts and middleware/auth: what the server runs before a handler.    *)
(* An Authorization header is its scheme as written, and the credentials:  *)
(* the token of a Bearer header, the text a Basic header decodes to, split *)
(* at its first colon (secret is NULL when it holds no colon).  The tokens *)
(* drawn hold no blanks, so that trim() leaves them as they are.           *)
(***************************************************************************)
NoHeader == [scheme |-> NULL, user |-> NULL, secret |-> NULL]

Bearer(scheme, token) == [scheme |-> scheme, user |-> NULL, secret |-> token]

Basic(scheme, user, password) == [scheme |-> scheme, user |-> user, secret |-> password]

\* The Authorization headers of the requests: none, the token as Bearer in
\* two spellings of the scheme, a wrong token, Basic with the token as the
\* password, with a wrong password, without a colon, and another scheme.
AuthHeaders ==
    { NoHeader,
      Bearer("Bearer", "tok"), Bearer("bearer", "tok"), Bearer("Bearer", "bad"),
      Basic("Basic", "default", "tok"), Basic("Basic", "default", "bad"),
      Basic("Basic", "tok", NULL), Bearer("Digest", "tok") }

\* authHeader.toLowerCase().startsWith("bearer ") / startsWith("basic ")
SchemeOf(header) ==
    CASE header.scheme \in {"Bearer", "bearer", "BEARER"} -> "bearer"
      [] header.scheme \in {"Basic", "basic", "BASIC"} -> "basic"
      [] OTHER -> "other"

\* secureCompare: equal lengths and equal bytes
secureCompare(a, b) == a = b

Authenticated == [authenticated |-> TRUE, error |-> NULL, status |-> 0]

Unauthorized(error) == [authenticated |-> FALSE, error |-> error, status |-> 401]

\* authMiddleware: the derive, registered { as: "global" }; status is what it
\* assigns to set.status (0: nothing).
authMiddleware(cfg, header) ==
    IF cfg.token \in {NULL, ""} THEN Authenticated
    ELSE IF header = NoHeader
    THEN Unauthorized("Unauthorized - Missing Authorization header")
    ELSE IF SchemeOf(header) = "bearer"
    THEN IF secureCompare(header.secret, cfg.token) THEN Authenticated
         ELSE Unauthorized("Unauthorized - Invalid token")
    ELSE IF SchemeOf(header) = "basic"
    THEN IF header.secret # NULL /\ secureCompare(header.secret, cfg.token)
         THEN Authenticated
         ELSE Unauthorized("Unauthorized - Invalid credentials")
    ELSE Unauthorized("Unauthorized - Unsupported authentication method")

\* requireAuth registers its onBeforeHandle on its own instance without an
\* `as` option: the hook is local to that instance, on which no route is
\* registered; the routes of commandRoutes are registered on another one.
GuardedRoutes == {}

\* requireAuth: the onBeforeHandle guard
requireAuth(route, derived) ==
    IF route \in GuardedRoutes /\ ~derived.authenticated
    THEN [rejected |-> TRUE, resp |-> Response(401, formatError(<<derived.error>>))]
    ELSE [rejected |-> FALSE, resp |-> NoResponse]

\* The key the limiter counts under: generator(request).
Anonymous == [key |-> "anonymous"]

generator(req) ==
    IF req.authorization # NoHeader THEN [key |-> "auth", hash |-> req.authorization]
    ELSE Anonymous

RateKeys == {Anonymous} \cup {[key |-> "auth", hash |-> h] : h \in AuthHeaders \ {NoHeader}}

\* rateLimit({max, skip, generator, responseMessage}); installed only if
\* config.rateLimit.enabled.  The request is counted, then refused if the
\* count went over max.
rateLimit(cfg, h, req) ==
    IF ~cfg.rateLimit.enabled \/ req.route = "/health"
    THEN [hits |-> h, rejected |-> FALSE]
    ELSE LET key == generator(req) IN
         [hits |-> [h EXCEPT ![key] = @ + 1], rejected |-> h[key] + 1 > cfg.rateLimit.max]

\* A handler that returns without assigning set.status answers with the
\* status set before it ran.
KeepStatus(set, resp) == IF set = 0 THEN resp ELSE [resp EXCEPT !.status = set]

Health == [kind |-> "health", status |-> "ok"]

\* The server: derive, then the onBeforeHandle hooks in the order of their
\* registration, then the handler up to its first await.  reached says
\* whether a handler ran.
Serve(cfg, h, req) ==
    LET derived == authMiddleware(cfg, req.authorization)
        limit == rateLimit(cfg, h, req)
        guard == requireAuth(req.route, derived) IN
    IF limit.rejected
    THEN [hits |-> limit.hits, reached |-> FALSE, setStatus |-> derived.status,
          out |-> Respond(Response(429, formatError(<<"ERR rate limit exceeded">>)),
                          <<>>, NotThrown)]
    ELSE IF guard.rejected
    THEN [hits |-> limit.hits, reached |-> FALSE, setStatus |-> derived.status,
          out |-> Respond(guard.resp, <<>>, NotThrown)]
    ELSE IF req.route = "/health"
    THEN [hits |-> limit.hits, reached |-> TRUE, setStatus |-> derived.status,
          out |-> Respond(KeepStatus(derived.status, Response(200, Health)),
                          <<>>, NotThrown)]
    ELSE [hits |-> limit.hits, reached |-> TRUE, setStatus |-> derived.status,
          out |-> Handle(cfg, req)]

(***************************************************************************)
(* redis/client: RedisClientManager.                                       *)
(*                                                                         *)
(* A store connection is a number 1..MaxConns, given in order of           *)
(* construction; conns[c] is its ioredis status: "none" (not constructed), *)
(* "connecting", "ready", "reconnecting" (dropped, ioredis retrying) or    *)
(* "end".  A request in flight is a record; its pc says at which await of  *)
(* the manager it is suspended.                                            *)
(***************************************************************************)
Procs == 1..MaxProcs

Conns == 1..MaxConns

NoPromise == [conn |-> 0, state |-> "none"]

IdleProc ==
    [ pc |-> "idle", route |-> NULL, op |-> NULL, commands |-> <<>>, validated |-> <<>>,
      conn |-> 0, creator |-> FALSE, init |-> <<>>, pending |-> {}, sent |-> <<>>,
      reported |-> NULL, results |-> <<>>, resp |-> NoResponse, thrown |-> NotThrown,
      setStatus |-> 0, refused |-> NULL ]

Mode(cfg) ==
    IF cfg.cluster.enabled THEN "cluster"
    ELSE IF cfg.pool.enabled THEN "pool"
    ELSE "single"

Max(a, b) == IF a > b THEN a ELSE b

\* initializePool: const poolSize = Math.max(config.pool.min, 1)
PoolSize(cfg) == Max(cfg.pool.min, 1)

LastN(seq, n) == IF Len(seq) <= n THEN seq ELSE SubSeq(seq, Len(seq) - n + 1, Len(seq))

\* a dispatch that takes the name from the end of the command
DispatchLastElement(pr, c) ==
    [pr EXCEPT !.pc = "executing", !.conn = c,
               !.sent = [i \in DOMAIN pr.commands |->
                            pr.commands[i][Len(pr.commands[i])]]]

\* execute / pipeline / transaction after getClient resolved with connection c:
\* every command is handed to the client under its upper-cased name.
Dispatch(pr, c) ==
    [pr EXCEPT !.pc = "executing", !.conn = c,
               !.sent = [i \in DOMAIN pr.commands |-> toUpperCase(pr.commands[i][1])]]

\* the handler's catch block after the manager threw err
Fail(pr, err) == [pr EXCEPT !.pc = "done", !.resp = Catch(pr.route, err), !.thrown = err]

ConnectionError == Error(<<"connect ECONNREFUSED">>)

AlreadyConnecting == Error(<<"Redis is already connecting/connected">>)

NoClusterNodes ==
    Error(<<"Redis Cluster enabled but no nodes configured. Set REDIS_CLUSTER_NODES.">>)

\* getPooledClient, line 266
NextPoolIndexStuck(index, length) == index

NextPoolIndexUnbounded(index, length) == index + 1

NextPoolIndex(index, length) == (index + 1) % length

\* getPooledClient from the round-robin selection on (lines 264-273), on the
\* pool thePool with the connection statuses cs.  client.connect() of ioredis
\* rejects at once when the client is already connecting.
Select(pr, thePool, index, cs) ==
    LET c == thePool[index + 1] IN
    [ slot |-> index,
      poolIndex |-> NextPoolIndex(index, Len(thePool)),
      conns |-> IF cs[c] \in {"ready", "connecting"} THEN cs
                ELSE [cs EXCEPT ![c] = "connecting"],
      proc |-> IF cs[c] = "ready" THEN Dispatch(pr, c)
               ELSE IF cs[c] = "connecting" THEN Fail(pr, AlreadyConnecting)
               ELSE [pr EXCEPT !.pc = "reconnecting", !.conn = c] ]

\* createClusterClient, lines 353-355: if (config.cluster.nodes.length === 0) throw
NoNodesConfiguredIgnored(cfg) == FALSE

NoNodesConfigured(cfg) == cfg.cluster.nodes = 0

\* getSingleClient / getClusterClient up to the first await.
\* if (this.connectionPromise), lines 241 and 281
SharedAttemptIgnored == FALSE

SharedAttempt == connectionPromise.state # "none"

GetSingleOrClusterClient(p, pr) ==
    /\ UNCHANGED <<pool, poolIndex, selLog>>
    /\ IF client # 0 /\ conns[client] = "ready"
       THEN \* fast path
            /\ procs' = [procs EXCEPT ![p] = Dispatch(pr, client)]
            /\ UNCHANGED <<client, connectionPromise, conns, created>>
       ELSE IF SharedAttempt
       THEN \* return this.connectionPromise
            /\ procs' = [procs EXCEPT ![p] =
                            IF connectionPromise.state = "fulfilled"
                            THEN Dispatch(pr, connectionPromise.conn)
                            ELSE [pr EXCEPT !.pc = "connecting",
                                            !.conn = connectionPromise.conn]]
            /\ UNCHANGED <<client, connectionPromise, conns, created>>
       ELSE IF Mode(config) = "cluster" /\ NoNodesConfigured(config)
       THEN \* createClusterClient throws; the catch clears connectionPromise
            /\ procs' = [procs EXCEPT ![p] = Fail(pr, NoClusterNodes)]
            /\ connectionPromise' = NoPromise
            /\ UNCHANGED <<client, conns, created>>
       ELSE \* this.connectionPromise = this.createSingleClient()
            /\ created < MaxConns
            /\ created' = created + 1
            /\ conns' = [conns EXCEPT ![created + 1] = "connecting"]
            /\ connectionPromise' = [conn |-> created + 1, state |-> "pending"]
            /\ procs' = [procs EXCEPT ![p] =
                            [pr EXCEPT !.pc = "connecting", !.conn = created + 1,
                                       !.creator = TRUE]]
            /\ UNCHANGED client

\* getPooledClient up to the first await.
GetPooledClient(p, pr) ==
    /\ UNCHANGED <<client, connectionPromise>>
    /\ IF Len(pool) = 0
       THEN \* await this.initializePool(): poolSize connections, all connecting
            LET n == PoolSize(config)
                fresh == [i \in 1..n |-> created + i] IN
            /\ created + n <= MaxConns
            /\ created' = created + n
            /\ conns' = [c \in Conns |->
                            IF c \in created + 1 .. created + n THEN "connecting"
                            ELSE conns[c]]
            /\ procs' = [procs EXCEPT ![p] =
                            [pr EXCEPT !.pc = "initializing", !.init = fresh,
                                       !.pending = created + 1 .. created + n]]
            /\ UNCHANGED <<pool, poolIndex, selLog>>
       ELSE LET sel == Select(pr, pool, poolIndex, conns) IN
            /\ poolIndex' = sel.poolIndex
            /\ conns' = sel.conns
            /\ procs' = [procs EXCEPT ![p] = sel.proc]
            /\ selLog' = LastN(Append(selLog, sel.slot), Len(pool))
            /\ UNCHANGED <<pool, created>>

GetClient(p, pr) ==
    IF Mode(config) = "pool" THEN GetPooledClient(p, pr)
    ELSE GetSingleOrClusterClient(p, pr)

(***************************************************************************)
(* What the store answers to a dispatched request.                         *)
(***************************************************************************)
ExecNull == [kind |-> "null", results |-> <<>>, message |-> <<>>]

ExecResults(results) == [kind |-> "results", results |-> results, message |-> <<>>]

ExecThrow(message) == [kind |-> "throw", results |-> <<>>, message |-> message]

Ok(value) == [err |-> NULL, value |-> value]

Err(message) == [err |-> message, value |-> JNull]

\* one entry of the [Error | null, unknown][] that exec() resolves with
Outcomes == {Ok(Text("OK")), Err("WRONGTYPE"), Err("ERR syntax error")}

RECURSIVE SeqsOfLen(_, _)
SeqsOfLen(S, n) ==
    IF n = 0 THEN {<<>>}
    ELSE {<<x>> \o rest : x \in S, rest \in SeqsOfLen(S, n - 1)}

\* exec() of a batch of n commands: one entry per command, null, or a rejection
ExecAnswers(n) ==
    {ExecNull, ExecThrow(<<"Connection is closed.">>)}
        \cup {ExecResults(rs) : rs \in SeqsOfLen(Outcomes, n)}

\* client.call(): a value, or a rejection
CallAnswers ==
    {ExecResults(<<Ok(Text("OK"))>>), ExecResults(<<Ok(Undefined)>>),
     ExecThrow(<<"WRONGTYPE">>), ExecThrow(<<"Connection is closed.">>)}

Returned(values) == [ok |-> TRUE, values |-> values, error |-> Error(<<>>)]

Thrown(err) == [ok |-> FALSE, values |-> <<>>, error |-> err]

\* RedisClientManager.pipeline after exec(): return results ?? []
pipeline(answer) ==
    IF answer.kind = "throw" THEN Thrown(Error(answer.message))
    ELSE IF answer.kind = "null" THEN Returned(<<>>)
    ELSE Returned(answer.results)

\* RedisClientManager.transaction after exec()
transactionLastError(answer) ==
    IF answer.kind = "throw" THEN Thrown(Error(answer.message))
    ELSE IF answer.kind = "null" THEN Thrown(Error(<<"Transaction was aborted">>))
    ELSE LET errors == SelectSeq(answer.results, LAMBDA r : r.err # NULL) IN
         IF Len(errors) > 0
         THEN Thrown(Error(<<"Transaction failed: ", errors[Len(errors)].err>>))
         ELSE Returned([i \in DOMAIN answer.results |-> answer.results[i].value])

transactionAbortEmpty(answer) ==
    IF answer.kind = "throw" THEN Thrown(Error(answer.message))
    ELSE IF answer.kind = "null" THEN Returned(<<>>)
    ELSE LET errors == SelectSeq(answer.results, LAMBDA r : r.err # NULL) IN
         IF Len(errors) > 0
         THEN Thrown(Error(<<"Transaction failed: ", errors[1].err>>))
         ELSE Returned([i \in DOMAIN answer.results |-> answer.results[i].value])

transaction(answer) ==
    IF answer.kind = "throw" THEN Thrown(Error(answer.message))
    ELSE IF answer.kind = "null" THEN Thrown(Error(<<"Transaction was aborted">>))
    ELSE LET errors == SelectSeq(answer.results, LAMBDA r : r.err # NULL) IN
         IF Len(errors) > 0
         THEN Thrown(Error(<<"Transaction failed: ", errors[1].err>>))
         ELSE Returned([i \in DOMAIN answer.results |-> answer.results[i].value])

\* RedisClientManager.execute after call()
execute(answer) ==
    IF answer.kind = "throw" THEN Thrown(Error(answer.message))
    ELSE Returned(<<answer.results[1].value>>)

\* The rest of the handler once the manager's method settled.
Settle(pr, answer) ==
    LET r == CASE pr.op = "execute" -> execute(answer)
               [] pr.op = "pipeline" -> pipeline(answer)
               [] pr.op = "transaction" -> transaction(answer)
        done == [pr EXCEPT !.pc = "done", !.reported = answer.kind,
                           !.results = answer.results] IN
    IF ~r.ok THEN [done EXCEPT !.resp = Catch(pr.route, r.error), !.thrown = r.error]
    ELSE \* the handler returns without assigning set.status
         CASE pr.op = "execute" ->
                [done EXCEPT !.resp =
                    KeepStatus(pr.setStatus, Response(200, formatSuccess(r.values[1])))]
           [] pr.op = "pipeline" ->
                [done EXCEPT !.resp =
                    KeepStatus(pr.setStatus, ArrayResponse(formatMultipleResults(r.values)))]
           [] pr.op = "transaction" ->
                [done EXCEPT !.resp =
                    KeepStatus(pr.setStatus,
                        ArrayResponse([i \in DOMAIN r.values |-> formatSuccess(r.values[i])]))]

(***************************************************************************)
(* Requests.                                                               *)
(***************************************************************************)
ReqNames == {"get", "Keys", "WAIT"}

Heads == ReqNames \cup {NonString}

Requests ==
    {[route |-> "/", path |-> <<>>, body |-> b, authorization |-> NoHeader] :
        b \in {ArrayBody(<<h>>) : h \in Heads} \cup {ObjectBody("Keys"), ObjectBody("get")}}
    \cup
    {[route |-> r, path |-> <<>>, body |-> BatchBody(elems), authorization |-> NoHeader] :
        r \in {"/pipeline", "/multi-exec"},
        elems \in UNION {SeqsOfLen({ArrayBody(<<h>>) : h \in Heads}, n) : n \in 1..MaxBatch}}
    \cup
    {[route |-> "/*", path |-> path, body |-> b, authorization |-> NoHeader] :
        path \in {<<>>} \cup {<<h>> : h \in ReqNames \cup {Malformed}},
        b \in {NoBody, ArrayBody(<<"arg">>), ObjectBody("Keys"), ObjectBody("get")}}

\* A request arrives: the handler runs up to the first await of the manager.
Request(p, req) ==
    /\ procs[p].pc = "idle"
    /\ \A q \in Procs : q < p => procs[q].pc # "idle"
    /\ served < MaxRequests
    /\ server = "listening"
    /\ served' = served + 1
    /\ UNCHANGED <<config, server, answered, decided, disc>>
    /\ LET gate == Serve(config, hits, req)
           out == gate.out
           pr == [IdleProc EXCEPT !.route = req.route, !.op = out.op,
                                  !.commands = out.commands,
                                  !.validated = out.validated,
                                  !.thrown = out.thrown,
                                  !.refused = out.refused,
                                  !.setStatus = gate.setStatus] IN
       /\ hits' = gate.hits
       /\ IF out.kind = "respond"
          THEN /\ procs' = [procs EXCEPT ![p] = [pr EXCEPT !.pc = "done", !.resp = out.resp]]
               /\ UNCHANGED <<client, connectionPromise, pool, poolIndex, conns, created,
                              selLog>>
          ELSE GetClient(p, pr)

\* The store answers; the handler formats the response.
Reply(p, answer) ==
    /\ server # "exited"
    /\ procs[p].pc = "executing"
    /\ answer \in IF procs[p].op = "execute" THEN CallAnswers
                  ELSE ExecAnswers(Len(procs[p].commands))
    /\ procs' = [procs EXCEPT ![p] = Settle(procs[p], answer)]
    /\ UNCHANGED <<config, server, hits, answered,
                   decided, client, connectionPromise, pool, poolIndex, conns,
                   created, served, disc, selLog>>

\* The response has been written.
Finish(p) ==
    /\ server # "exited"
    /\ procs[p].pc = "done"
    /\ procs' = [procs EXCEPT ![p] = IdleProc]
    /\ UNCHANGED <<config, server, hits, answered,
                   decided, client, connectionPromise, pool, poolIndex, conns,
                   created, served, disc, selLog>>

(***************************************************************************)
(* Connection events.                                                      *)
(***************************************************************************)
Waits(q, c) == procs[q].pc = "connecting" /\ procs[q].conn = c

\* createSingleClient / createClusterClient: connect() resolved.  The creator
\* stores the client (lines 249, 288); everyone awaiting the promise goes on.
AttemptSucceeds(c) ==
    /\ server # "exited"
    /\ conns[c] = "connecting"
    /\ \E q \in Procs : Waits(q, c) /\ procs[q].creator
    /\ conns' = [conns EXCEPT ![c] = "ready"]
    /\ client' = c
    /\ connectionPromise' = IF connectionPromise.conn = c
                            THEN [conn |-> c, state |-> "fulfilled"]
                            ELSE connectionPromise
    /\ procs' = [q \in Procs |-> IF Waits(q, c) THEN Dispatch(procs[q], c) ELSE procs[q]]
    /\ UNCHANGED <<config, server, hits, answered,
                   decided, pool, poolIndex, created, served, disc, selLog>>

\* connect() rejected, and the retries of ioredis failed as well (SpecRetry
\* follows them one by one): the creator's catch (lines 251-255, 290-293)
\* clears connectionPromise; everyone awaiting the promise throws.
AttemptFails(c) ==
    /\ server # "exited"
    /\ conns[c] = "connecting"
    /\ \E q \in Procs : Waits(q, c) /\ procs[q].creator
    /\ conns' = [conns EXCEPT ![c] = "end"]
    /\ connectionPromise' = NoPromise
    /\ procs' = [q \in Procs |->
                    IF Waits(q, c) THEN Fail(procs[q], ConnectionError) ELSE procs[q]]
    /\ UNCHANGED <<config, server, hits, answered,
                   decided, client, pool, poolIndex, created, served, disc, selLog>>

Initializes(q, c) == procs[q].pc = "initializing" /\ c \in procs[q].pending

\* createPooledConnection: connect() resolved.  When it was the last one of
\* its initializePool, Promise.all resolves: this.pool = connections, and
\* getPooledClient goes on to its selection.
PoolConnectionReady(c) ==
    /\ server # "exited"
    /\ conns[c] = "connecting"
    /\ \E q \in Procs :
        /\ Initializes(q, c)
        /\ LET cs == [conns EXCEPT ![c] = "ready"]
               pr == [procs[q] EXCEPT !.pending = @ \ {c}] IN
           IF pr.pending # {}
           THEN /\ conns' = cs
                /\ procs' = [procs EXCEPT ![q] = pr]
                /\ UNCHANGED <<pool, poolIndex, selLog>>
           ELSE LET sel == Select(pr, pr.init, poolIndex, cs) IN
                /\ pool' = pr.init
                /\ poolIndex' = sel.poolIndex
                /\ conns' = sel.conns
                /\ procs' = [procs EXCEPT ![q] = sel.proc]
                /\ selLog' = LastN(Append(selLog, sel.slot), Len(pr.init))
    /\ UNCHANGED <<config, server, hits, answered,
                   decided, client, connectionPromise, created, served, disc>>

\* createPooledConnection: connect() rejected.  Promise.all rejects, so
\* initializePool and getPooledClient throw; the other connections of this
\* initialization go on connecting with nobody awaiting them.
PoolConnectionFails(c) ==
    /\ server # "exited"
    /\ conns[c] = "connecting"
    /\ \E q \in Procs :
        /\ Initializes(q, c)
        /\ procs' = [procs EXCEPT ![q] = Fail([procs[q] EXCEPT !.pending = {}],
                                              ConnectionError)]
    /\ conns' = [conns EXCEPT ![c] = "end"]
    /\ UNCHANGED <<config, server, hits, answered,
                   decided, client, connectionPromise, pool, poolIndex, created,
                   served, disc, selLog>>

Reconnects(q, c) == procs[q].pc = "reconnecting" /\ procs[q].conn = c

\* getPooledClient, line 270: await client.connect() resolved.
ReconnectSucceeds(c) ==
    /\ server # "exited"
    /\ conns[c] = "connecting"
    /\ \E q \in Procs : Reconnects(q, c)
    /\ conns' = [conns EXCEPT ![c] = "ready"]
    /\ procs' = [q \in Procs |->
                    IF Reconnects(q, c) THEN Dispatch(procs[q], c) ELSE procs[q]]
    /\ UNCHANGED <<config, server, hits, answered,
                   decided, client, connectionPromise, pool, poolIndex, created,
                   served, disc, selLog>>

\* getPooledClient, line 270: await client.connect() rejected.
ReconnectFails(c) ==
    /\ server # "exited"
    /\ conns[c] = "connecting"
    /\ \E q \in Procs : Reconnects(q, c)
    /\ conns' = [conns EXCEPT ![c] = "end"]
    /\ procs' = [q \in Procs |->
                    IF Reconnects(q, c) THEN Fail(procs[q], ConnectionError)
                    ELSE procs[q]]
    /\ UNCHANGED <<config, server, hits, answered,
                   decided, client, connectionPromise, pool, poolIndex, created,
                   served, disc, selLog>>

Awaited(c) == \E q \in Procs : Waits(q, c) \/ Initializes(q, c) \/ Reconnects(q, c)

\* A connection nobody awaits any more finishes connecting, or fails to.
UnawaitedSettles(c, status) ==
    /\ server # "exited"
    /\ conns[c] = "connecting"
    /\ ~Awaited(c)
    /\ status \in {"ready", "end"}
    /\ conns' = [conns EXCEPT ![c] = status]
    /\ UNCHANGED <<config, server, hits, answered,
                   decided, client, connectionPromise, pool, poolIndex, created,
                   procs, served, disc, selLog>>

\* An established connection is lost; ioredis starts to reconnect by itself.
ConnectionDrops(c) ==
    /\ server # "exited"
    /\ conns[c] = "ready"
    /\ conns' = [conns EXCEPT ![c] = "reconnecting"]
    /\ UNCHANGED <<config, server, hits, answered,
                   decided, client, connectionPromise, pool, poolIndex, created,
                   procs, served, disc, selLog>>

\* ioredis re-established the connection, or gave up (retryStrategy -> null).
RetryEnds(c, status) ==
    /\ server # "exited"
    /\ conns[c] = "reconnecting"
    /\ status \in {"ready", "end"}
    /\ conns' = [conns EXCEPT ![c] = status]
    /\ UNCHANGED <<config, server, hits, answered,
                   decided, client, connectionPromise, pool, poolIndex, created,
                   procs, served, disc, selLog>>

(***************************************************************************)
(* RedisClientManager.disconnect(), lines 439-452.  quit() of ioredis      *)
(* rejects on a connection that has ended, and is answered only once the   *)
(* connection is established.                                              *)
(***************************************************************************)
NoDisconnect == [pc |-> "idle", quitting |-> <<>>]

Range(seq) == {seq[i] : i \in DOMAIN seq}

Quit(cs, quitting) == [c \in Conns |-> IF c \in Range(quitting) THEN "end" ELSE cs[c]]

DisconnectCalled ==
    /\ server # "exited"
    /\ disc.pc = "idle"
    /\ Len(pool) > 0 \/ client # 0
    /\ disc' = IF Len(pool) > 0 THEN [pc |-> "quitPool", quitting |-> pool]
               ELSE [pc |-> "quitClient", quitting |-> <<client>>]
    /\ UNCHANGED <<config, server, hits, answered,
                   decided, client, connectionPromise, pool, poolIndex, conns,
                   created, procs, served, selLog>>

\* await Promise.all(this.pool.map((c) => c.quit())) settled
PoolQuitSettles ==
    /\ server # "exited"
    /\ disc.pc = "quitPool"
    /\ \A c \in Range(disc.quitting) : conns[c] # "connecting"
    /\ conns' = Quit(conns, disc.quitting)
    /\ IF \E c \in Range(disc.quitting) : conns[c] = "end"
       THEN \* a quit() rejected: disconnect() throws
            /\ disc' = NoDisconnect
            /\ UNCHANGED pool
       ELSE /\ pool' = <<>>
            /\ disc' = IF client # 0 THEN [pc |-> "quitClient", quitting |-> <<client>>]
                       ELSE NoDisconnect
    /\ UNCHANGED <<config, server, hits, answered,
                   decided, client, connectionPromise, poolIndex, created, procs,
                   served, selLog>>

\* await this.client.quit() settled
ClientQuitSettles ==
    /\ server # "exited"
    /\ disc.pc = "quitClient"
    /\ \A c \in Range(disc.quitting) : conns[c] # "connecting"
    /\ conns' = Quit(conns, disc.quitting)
    /\ disc' = NoDisconnect
    /\ IF \E c \in Range(disc.quitting) : conns[c] = "end"
       THEN UNCHANGED <<client, connectionPromise>>
       ELSE client' = 0 /\ connectionPromise' = NoPromise
    /\ UNCHANGED <<config, server, hits, answered,
                   decided, pool, poolIndex, created, procs, served, selLog>>

(***************************************************************************)
(* The adapter: configuration loaded at start, then requests, connection   *)
(* events and disconnect() in any order.                                   *)
(***************************************************************************)
BasicTopologyEnvs ==
    { DefaultEnv,
      [DefaultEnv EXCEPT !.REDIS_POOL_ENABLED = Set("true")],
      [DefaultEnv EXCEPT !.REDIS_CLUSTER_ENABLED = Set("true"),
                         !.REDIS_CLUSTER_NODES = Set(1)] }

TopologyEnvs ==
    { DefaultEnv,
      [DefaultEnv EXCEPT !.REDIS_POOL_ENABLED = Set("true")],
      [DefaultEnv EXCEPT !.REDIS_POOL_ENABLED = Set("true"), !.REDIS_POOL_MIN = Set(0)],
      [DefaultEnv EXCEPT !.REDIS_POOL_ENABLED = Set("true"), !.REDIS_POOL_MAX = Set(1)],
      [DefaultEnv EXCEPT !.REDIS_CLUSTER_ENABLED = Set("true"),
                         !.REDIS_CLUSTER_NODES = Set(1)],
      [DefaultEnv EXCEPT !.REDIS_CLUSTER_ENABLED = Set("true")] }

SystemEnvs ==
    {[e EXCEPT !.COMMAND_FILTER_MODE = m] :
        e \in BasicTopologyEnvs, m \in {Unset, Set("allowlist"), Set("none")}}

ManagerInit ==
    /\ client = 0
    /\ connectionPromise = NoPromise
    /\ pool = <<>>
    /\ poolIndex = 0
    /\ conns = [c \in Conns |-> "none"]
    /\ created = 0
    /\ procs = [p \in Procs |-> IdleProc]
    /\ served = 0
    /\ disc = NoDisconnect
    /\ selLog = <<>>
    /\ server = "listening"
    /\ hits = [k \in RateKeys |-> 0]
    /\ answered = <<>>

Init ==
    /\ config \in {loadConfig(env) : env \in TopologyEnvs}
    /\ decided = <<>>
    /\ ManagerInit

\* index.ts, lines 127-137: SIGINT or SIGTERM arrives; the handler calls
\* server.stop() and awaits it.
Signal ==
    /\ server = "listening"
    /\ server' = "stopping"
    /\ UNCHANGED <<config, decided, client, connectionPromise, pool, poolIndex, conns,
                   created, procs, served, disc, selLog, hits, answered>>

\* server.stop() resolved: process.exit(0).  The connections are left as
\* they were when the process ended.
Exit ==
    /\ server = "stopping"
    /\ server' = "exited"
    /\ UNCHANGED <<config, decided, client, connectionPromise, pool, poolIndex, conns,
                   created, procs, served, disc, selLog, hits, answered>>

\* One step of the adapter with the requests of reqs arriving on the slots ps.
Step(ps, reqs) ==
    \/ \E p \in ps, req \in reqs : Request(p, req)
    \/ \E p \in ps, answer \in CallAnswers \cup ExecAnswers(MaxBatch)
                                   \cup ExecAnswers(1) : Reply(p, answer)
    \/ \E p \in ps : Finish(p)
    \/ \E c \in Conns : AttemptSucceeds(c)
    \/ \E c \in Conns : AttemptFails(c)
    \/ \E c \in Conns : PoolConnectionReady(c)
    \/ \E c \in Conns : PoolConnectionFails(c)
    \/ \E c \in Conns : ReconnectSucceeds(c)
    \/ \E c \in Conns : ReconnectFails(c)
    \/ \E c \in Conns, status \in {"ready", "end"} : UnawaitedSettles(c, status)
    \/ \E c \in Conns : ConnectionDrops(c)
    \/ \E c \in Conns, status \in {"ready", "end"} : RetryEnds(c, status)
    \/ DisconnectCalled
    \/ PoolQuitSettles
    \/ ClientQuitSettles

\* Concurrent requests: the manager under every interleaving.
ConcurrentRequests ==
    { [route |-> "/", path |-> <<>>, body |-> ArrayBody(<<"get">>),
       authorization |-> NoHeader],
      [route |-> "/", path |-> <<>>, body |-> ArrayBody(<<"Keys">>),
       authorization |-> NoHeader] }

Next == Step(Procs, ConcurrentRequests) \/ Signal \/ Exit

Spec == Init /\ [][Next]_vars

(***************************************************************************)
(* Pool mode with the pool established: a first request initialized the    *)
(* pool, selected slot 0 and was answered.  Then requests, connection      *)
(* events and disconnect() in any order.                                   *)
(***************************************************************************)
PoolEnvs ==
    { [DefaultEnv EXCEPT !.REDIS_POOL_ENABLED = Set("true")],
      [DefaultEnv EXCEPT !.REDIS_POOL_ENABLED = Set("true"), !.REDIS_POOL_MIN = Set(0)] }

InitPool ==
    /\ config \in {loadConfig(env) : env \in PoolEnvs}
    /\ decided = <<>>
    /\ client = 0
    /\ connectionPromise = NoPromise
    /\ pool = [i \in 1 .. PoolSize(config) |-> i]
    /\ poolIndex = NextPoolIndex(0, PoolSize(config))
    /\ conns = [c \in Conns |-> IF c <= PoolSize(config) THEN "ready" ELSE "none"]
    /\ created = PoolSize(config)
    /\ procs = [p \in Procs |-> IdleProc]
    /\ served = 0
    /\ disc = NoDisconnect
    /\ selLog = <<0>>
    /\ server = "listening"
    /\ hits = [k \in RateKeys |-> 0]
    /\ answered = <<>>

NextPool ==
    \/ \E p \in Procs, req \in ConcurrentRequests : Request(p, req)
    \/ \E p \in Procs, answer \in CallAnswers : Reply(p, answer)
    \/ \E p \in Procs : Finish(p)
    \/ \E c \in Conns : PoolConnectionReady(c)
    \/ \E c \in Conns : PoolConnectionFails(c)
    \/ \E c \in Conns : ReconnectSucceeds(c)
    \/ \E c \in Conns : ReconnectFails(c)
    \/ \E c \in Conns, status \in {"ready", "end"} : UnawaitedSettles(c, status)
    \/ \E c \in Conns : ConnectionDrops(c)
    \/ \E c \in Conns, status \in {"ready", "end"} : RetryEnds(c, status)
    \/ DisconnectCalled
    \/ PoolQuitSettles

SpecPool == InitPool /\ [][NextPool]_vars

(***************************************************************************)
(* The connection attempts one by one.  ioredis calls retryStrategy with   *)
(* the number of the retry each time the connection closes, waits the      *)
(* delay it returns and connects again, or ends the connection when it     *)
(* returns null.  The promise of connect() rejects when the connection     *)
(* closes for the first time.  decided logs the calls of retryStrategy,     *)
(* connection by connection.                                               *)
(***************************************************************************)
Delay(ms) == [retry |-> TRUE, ms |-> ms]

StopRetrying == [retry |-> FALSE]

Min(a, b) == IF a < b THEN a ELSE b

\* retryStrategy of createSingleClient and createPooledConnection, and
\* clusterRetryStrategy of createClusterClient: the same function
retryStrategy(times) ==
    IF times > 3 THEN StopRetrying ELSE Delay(Min(times * 200, 2000))

\* retryAttempts of the connection c
retryAttempts(c) == Len(decided[c])

\* The connection c, connecting, closes: ioredis asks retryStrategy; the
\* callers awaiting connect() on c fail (the catch of lines 251-255 and
\* 290-293 clears connectionPromise; Promise.all of initializePool rejects).
ConnectionCloses(c) ==
    /\ server # "exited"
    /\ conns[c] = "connecting"
    /\ retryAttempts(c) < MaxRetries
    /\ LET times == retryAttempts(c) + 1
           delay == retryStrategy(times) IN
       /\ decided' = [decided EXCEPT ![c] = Append(@, [times |-> times, delay |-> delay])]
       /\ conns' = [conns EXCEPT ![c] = IF delay.retry THEN "reconnecting" ELSE "end"]
    /\ procs' = [q \in Procs |->
                    IF Waits(q, c) \/ Initializes(q, c)
                    THEN Fail([procs[q] EXCEPT !.pending = {}], ConnectionError)
                    ELSE procs[q]]
    /\ connectionPromise' = IF \E q \in Procs : Waits(q, c) THEN NoPromise
                            ELSE connectionPromise
    /\ UNCHANGED <<config, server, hits, answered,
                   client, pool, poolIndex, created, served, disc, selLog>>

\* The delay has passed: ioredis connects again.
RetryTimerFires(c) ==
    /\ server # "exited"
    /\ conns[c] = "reconnecting"
    /\ conns' = [conns EXCEPT ![c] = "connecting"]
    /\ UNCHANGED <<config, server, hits, answered, decided,
                   client, connectionPromise, pool, poolIndex, created,
                   procs, served, disc, selLog>>

RetryEnvs ==
    { DefaultEnv,
      [DefaultEnv EXCEPT !.REDIS_POOL_ENABLED = Set("true"), !.REDIS_POOL_MIN = Set(1)],
      [DefaultEnv EXCEPT !.REDIS_CLUSTER_ENABLED = Set("true"),
                         !.REDIS_CLUSTER_NODES = Set(1)] }

InitRetry ==
    /\ config \in {loadConfig(env) : env \in RetryEnvs}
    /\ decided = [c \in Conns |-> <<>>]
    /\ ManagerInit

NextRetry ==
    \/ \E p \in Procs, req \in ConcurrentRequests : Request(p, req)
    \/ \E p \in Procs, answer \in CallAnswers : Reply(p, answer)
    \/ \E p \in Procs : Finish(p)
    \/ \E c \in Conns : AttemptSucceeds(c)
    \/ \E c \in Conns : PoolConnectionReady(c)
    \/ \E c \in Conns : UnawaitedSettles(c, "ready")
    \/ \E c \in Conns : ConnectionCloses(c)
    \/ \E c \in Conns : RetryTimerFires(c)

SpecRetry == InitRetry /\ [][NextRetry]_vars

(***************************************************************************)
(* One request at a time: every route, every body, every answer of the     *)
(* store, every filter mode.                                               *)
(***************************************************************************)
InitRequests ==
    /\ config \in {loadConfig(env) : env \in SystemEnvs}
    /\ decided = <<>>
    /\ ManagerInit

NextRequests == Step({1}, Requests)

SpecRequests == InitRequests /\ [][NextRequests]_vars

(***************************************************************************)
(* The filter alone: every configuration of the filter, every spelling of  *)
(* the command names.                                                      *)
(***************************************************************************)
ListValues == {Unset, Set(<<"wait">>), Set(<<"WAIT ">>), Set(<<"Get", " WAIT">>)}

FilterEnvs ==
    {[DefaultEnv EXCEPT !.COMMAND_FILTER_MODE = m, !.BLOCKED_COMMANDS = b,
                        !.ALLOWED_COMMANDS = a] :
        m \in {Unset, Set("blocklist"), Set("allowlist"), Set("none")}, b \in ListValues, a \in ListValues}

InitFilter ==
    /\ config \in {loadConfig(env) : env \in FilterEnvs}
    /\ decided = <<>>
    /\ ManagerInit

Validate(command) ==
    /\ Len(decided) < MaxDecisions
    /\ decided' = Append(decided, [command |-> command,
                                   verdict |-> validateCommand(config, command)])
    /\ UNCHANGED <<config, server, hits, answered,
                   client, connectionPromise, pool, poolIndex, conns, created,
                   procs, served, disc, selLog>>

NextFilter == \E command \in CommandNames : Validate(command)

SpecFilter == InitFilter /\ [][NextFilter]_vars

(***************************************************************************)
(* The server in front of the handlers: every setting of the token and of  *)
(* the rate limit, every Authorization header, every route.  A request is  *)
(* followed up to the point where its handler calls the manager.           *)
(***************************************************************************)
ServerEnvs ==
    {[DefaultEnv EXCEPT !.UPSTASH_TOKEN = t[1], !.TOKEN = t[2],
                        !.RATE_LIMIT_ENABLED = r[1], !.RATE_LIMIT_MAX = r[2]] :
        t \in {<<Unset, Unset>>, <<Set("tok"), Unset>>, <<Unset, Set("tok")>>},
        r \in {<<Unset, Unset>>, <<Set("false"), Unset>>, <<Unset, Set(1)>>}}

ServerRequests ==
    {[route |-> r[1], path |-> r[2], body |-> r[3], authorization |-> h] :
        r \in { <<"/health", <<>>, NoBody>>,
                <<"/", <<>>, ArrayBody(<<"get">>)>>,
                <<"/pipeline", <<>>, BatchBody(<<ArrayBody(<<"get">>)>>)>>,
                <<"/multi-exec", <<>>, BatchBody(<<ArrayBody(<<"get">>)>>)>>,
                <<"/*", <<"get">>, NoBody>> },
        h \in AuthHeaders}

InitServer ==
    /\ config \in {loadConfig(env) : env \in ServerEnvs}
    /\ decided = <<>>
    /\ ManagerInit

\* A request goes through the server; what became of it is logged.
Receive(req) ==
    /\ Len(answered) < MaxReceived
    /\ LET gate == Serve(config, hits, req) IN
       /\ hits' = gate.hits
       /\ answered' = Append(answered,
                             [req |-> req, reached |-> gate.reached,
                              dispatched |-> gate.out.kind = "call",
                              setStatus |-> gate.setStatus,
                              resp |-> gate.out.resp])
    /\ UNCHANGED <<config, decided, client, connectionPromise, pool, poolIndex, conns,
                   created, procs, served, disc, selLog, server>>

\* The window of the limiter (duration: config.rateLimit.windowMs) is over.
WindowExpires ==
    /\ \E k \in RateKeys : hits[k] > 0
    /\ hits' = [k \in RateKeys |-> 0]
    /\ UNCHANGED <<config, decided, client, connectionPromise, pool, poolIndex, conns,
                   created, procs, served, disc, selLog, server, answered>>

NextServer == (\E req \in ServerRequests : Receive(req)) \/ WindowExpires

SpecServer == InitServer /\ [][NextServer]_vars

(***************************************************************************)
(* The parser alone: every shape of body, every kind of element, applied   *)
(* to parseBodyCommand, to parseMultipleCommands and to the catch-all      *)
(* route up to its call of redisClient; and serializeResult on the values  *)
(* a store client resolves with.                                           *)
(***************************************************************************)
JsonElements == {"get", "Keys", NonString, NULL, JsonTrue, JsonObject}

JsonArrays == UNION {SeqsOfLen(JsonElements, n) : n \in 0..2}

SingleBodies ==
    {ArrayBody(items) : items \in JsonArrays}
    \cup {ObjectBody("get"), ObjectBody(NonString), ObjectBodyArgs("Keys", <<NULL, "get">>),
          ObjectBodyArgs("get", <<JsonTrue>>), ScalarBody, NoBody}

BatchElements ==
    {ArrayBody(<<"get">>), ArrayBody(<<"Keys", NULL>>), ArrayBody(<<>>),
     ArrayBody(<<NonString>>), ObjectBody("get"), ScalarBody}

BatchBodies == {BatchBody(elems) : elems \in UNION {SeqsOfLen(BatchElements, n) : n \in 0..MaxBatch}}

InitParser ==
    /\ config \in {loadConfig(env) :
                      env \in {DefaultEnv, [DefaultEnv EXCEPT !.COMMAND_FILTER_MODE = Set("none")]}}
    /\ decided = <<>>
    /\ ManagerInit

\* one application of a function: its input and what it returned
Applied(fn, input, out) == [fn |-> fn, input |-> input, out |-> out]

ParseBody(body) ==
    /\ Len(decided) < MaxParsed
    /\ decided' = Append(decided, Applied("parseBodyCommand", body, parseBodyCommand(body)))
    /\ UNCHANGED <<config, server, hits, answered,
                   client, connectionPromise, pool, poolIndex, conns, created,
                   procs, served, disc, selLog>>

ParseBatch(body) ==
    /\ Len(decided) < MaxParsed
    /\ decided' = Append(decided,
                         Applied("parseMultipleCommands", body, parseMultipleCommands(body)))
    /\ UNCHANGED <<config, server, hits, answered,
                   client, connectionPromise, pool, poolIndex, conns, created,
                   procs, served, disc, selLog>>

Route(path, body) ==
    /\ Len(decided) < MaxParsed
    /\ decided' = Append(decided, Applied("/*", [path |-> path, body |-> body],
                                          PathCommand(config, path, body)))
    /\ UNCHANGED <<config, server, hits, answered,
                   client, connectionPromise, pool, poolIndex, conns, created,
                   procs, served, disc, selLog>>

\* values the store client resolves with
Scalars ==
    {JNull, Undefined, Text("OK"), Text("v"), Num(1), BigInt(42),
     Buffer(<<79, 75>>), Buffer(<<255>>)}

StoreValues ==
    Scalars
    \cup {List(items) : items \in UNION {SeqsOfLen(Scalars, n) : n \in 0..2}}
    \cup {List(<<x, List(<<y, x>>)>>) : x, y \in Scalars}

Serialize(value) ==
    /\ Len(decided) < MaxParsed
    /\ decided' = Append(decided, Applied("serializeResult", value, serializeResult(value)))
    /\ UNCHANGED <<config, server, hits, answered,
                   client, connectionPromise, pool, poolIndex, conns, created,
                   procs, served, disc, selLog>>

NextParser ==
    \/ \E value \in StoreValues : Serialize(value)
    \/ \E body \in SingleBodies \cup BatchBodies : ParseBody(body)
    \/ \E body \in SingleBodies \cup BatchBodies : ParseBatch(body)
    \/ \E path \in {<<"get">>, <<"Keys">>}, body \in SingleBodies : Route(path, body)

SpecParser == InitParser /\ [][NextParser]_vars

(***************************************************************************)
(*                              PROPERTIES                                 *)
(***************************************************************************)

\* C1 (SpecRequests): on every route, every name handed to the store client
\* is a name validateCommand ran on and let pass under the loaded
\* configuration, the names reach the client in the order they were
\* validated, and a request answered 403 has handed nothing to the client.
C1_FilterBeforeDispatch ==
    \A p \in Procs :
        LET pr == procs[p] IN
        /\ \A i \in DOMAIN pr.sent :
              /\ i \in DOMAIN pr.validated
              /\ pr.sent[i] = toUpperCase(pr.validated[i])
              /\ validateCommand(config, pr.sent[i]) = Allowed
        /\ pr.resp.status = 403 => pr.sent = <<>>

\* A pipeline of two commands, both let pass, has been handed to the client.
C1_Witness ==
    \E p \in Procs :
        /\ procs[p].route = "/pipeline"
        /\ procs[p].pc = "executing"
        /\ Len(procs[p].sent) = 2
        /\ procs[p].sent[1] # procs[p].sent[2]

\* C2 (SpecFilter): validateCommand decides on the upper-cased name: in
\* blocklist mode it denies exactly the names whose upper-cased form is in
\* the dangerous set or in additionalBlockedCommands, in allowlist mode it
\* allows exactly those whose upper-cased form is in the safe set or in
\* additionalAllowedCommands, in none mode it allows all; two names that
\* differ only in case get the same verdict.
C2_DecidesOnUpperCase ==
    /\ \A i \in DOMAIN decided :
          LET up == toUpperCase(decided[i].command)
              allowed == decided[i].verdict = Allowed IN
          CASE config.commandFilterMode = "blocklist" ->
                  ~allowed <=> (up \in DANGEROUS_COMMANDS
                                \/ Includes(config.additionalBlockedCommands, up))
            [] config.commandFilterMode = "allowlist" ->
                  allowed <=> (up \in SAFE_COMMANDS
                               \/ Includes(config.additionalAllowedCommands, up))
            [] config.commandFilterMode = "none" -> allowed
    /\ \A i, j \in DOMAIN decided :
          toUpperCase(decided[i].command) = toUpperCase(decided[j].command)
              => decided[i].verdict = decided[j].verdict

\* Allowlist mode, two spellings of a command that only the configured list
\* allows, both allowed.
C2_Witness ==
    /\ config.commandFilterMode = "allowlist"
    /\ Len(decided) = 2
    /\ decided[1].command = "wait"
    /\ decided[2].command = "Wait"
    /\ Includes(config.additionalAllowedCommands, "WAIT")
    /\ decided[1].verdict = Allowed

\* C3 (SpecFilter), as claimed: in blocklist mode a command that
\* BLOCKED_COMMANDS names, in whatever letter case either is written, is
\* denied.
C3_ConfiguredBlockAnyCase ==
    \A i \in DOMAIN decided :
        (/\ config.commandFilterMode = "blocklist"
         /\ \E k \in DOMAIN config.additionalBlockedCommands :
               toUpperCase(config.additionalBlockedCommands[k])
                   = toUpperCase(decided[i].command))
            => decided[i].verdict # Allowed

Pipelines(pr) == pr.pc = "done" /\ pr.op = "pipeline"

Transacts(pr) == pr.pc = "done" /\ pr.op = "transaction"

Envelope(outcome) ==
    IF outcome.err # NULL THEN [kind |-> "error", error |-> <<outcome.err>>]
    ELSE [kind |-> "result", result |-> outcome.value]

\* C4 (SpecRequests), as claimed: whatever exec() of the pipeline reports, an
\* array of per-command outcomes or nothing, the response is an array of as
\* many envelopes as the request had commands, the i-th one for the i-th
\* command.
C4_PipelineOneEnvelopeEach ==
    \A p \in Procs :
        LET pr == procs[p] IN
        (Pipelines(pr) /\ pr.reported \in {"results", "null"}) =>
            /\ pr.resp.array
            /\ Len(pr.resp.body) = Len(pr.commands)
            /\ \A i \in DOMAIN pr.results : pr.resp.body[i] = Envelope(pr.results[i])

\* C5 (SpecRequests): a transaction request is answered either with an array
\* of exactly as many success envelopes as it had commands or with one
\* error envelope that is not in an array.
C5_TransactionAllOrOne ==
    \A p \in Procs :
        LET pr == procs[p] IN
        Transacts(pr) =>
            \/ /\ pr.resp.array
               /\ Len(pr.resp.body) = Len(pr.commands)
               /\ \A i \in DOMAIN pr.resp.body : pr.resp.body[i].kind = "result"
            \/ /\ ~pr.resp.array
               /\ Len(pr.resp.body) = 1
               /\ pr.resp.body[1].kind = "error"

\* A transaction of two commands answered with two success envelopes.
C5_Witness ==
    \E p \in Procs :
        /\ Transacts(procs[p])
        /\ procs[p].reported = "results"
        /\ procs[p].resp.array
        /\ Len(procs[p].resp.body) = 2

FirstError(results) ==
    results[CHOOSE i \in DOMAIN results :
                /\ results[i].err # NULL
                /\ \A j \in 1..(i - 1) : results[j].err = NULL].err

\* C6 (SpecRequests): when exec() of the transaction reports outcomes of
\* which one or more are errors, the response is the single envelope
\* {error: "Transaction failed: <m>"} with <m> the message of the first
\* error in input order; when exec() reports nothing (the attempt was
\* aborted) it is the single envelope {error: "Transaction was aborted"}.
C6_TransactionFirstError ==
    \A p \in Procs :
        LET pr == procs[p] IN
        /\ (/\ Transacts(pr)
            /\ pr.reported = "results"
            /\ \E i \in DOMAIN pr.results : pr.results[i].err # NULL)
              => /\ ~pr.resp.array
                 /\ pr.resp.body =
                      << [kind |-> "error",
                          error |-> <<"Transaction failed: ", FirstError(pr.results)>>] >>
        /\ (Transacts(pr) /\ pr.reported = "null")
              => /\ ~pr.resp.array
                 /\ pr.resp.body =
                      << [kind |-> "error", error |-> <<"Transaction was aborted">>] >>

\* Two commands failed with different messages; the first one is reported.
C6_Witness ==
    \E p \in Procs :
        /\ Transacts(procs[p])
        /\ procs[p].reported = "results"
        /\ Len(procs[p].results) = 2
        /\ procs[p].results[1].err = "ERR syntax error"
        /\ procs[p].results[2].err = "WRONGTYPE"
        /\ procs[p].resp.body[1].error = <<"Transaction failed: ", "ERR syntax error">>

Connecting == {c \in Conns : conns[c] = "connecting"}

C8_OneInitialization ==
    (/\ Mode(config) = "pool"
     /\ \A c \in Conns : conns[c] \in {"none", "connecting", "ready"})
        => created \in {0, PoolSize(config)}

AwaitedCreation(c) == \E q \in Procs : Waits(q, c) \/ Initializes(q, c)

\* C9 (Spec), as claimed: the step in which a topology creation attempt
\* fails leaves the manager uninitialized (no client, no connectionPromise,
\* empty pool), fails the requests that awaited the attempt and no other.
C9_FailedAttemptResets ==
    [][\A c \in Conns :
          (conns[c] = "connecting" /\ conns'[c] = "end" /\ AwaitedCreation(c)) =>
              /\ client' = 0
              /\ connectionPromise' = NoPromise
              /\ pool' = <<>>
              /\ \A q \in Procs :
                    IF Waits(q, c) \/ Initializes(q, c)
                    THEN procs'[q].pc = "done" /\ procs'[q].resp.status \in {400, 500}
                    ELSE procs'[q] = procs[q]]_vars

\* C9 in single and cluster mode, where no two attempts overlap.
C9_SingleAndCluster ==
    [][\A c \in Conns :
          (/\ Mode(config) \in {"single", "cluster"}
           /\ conns[c] = "connecting" /\ conns'[c] = "end" /\ AwaitedCreation(c)) =>
              /\ client' = 0
              /\ connectionPromise' = NoPromise
              /\ pool' = <<>>
              /\ \A q \in Procs :
                    IF Waits(q, c)
                    THEN procs'[q].pc = "done" /\ procs'[q].resp.status \in {400, 500}
                    ELSE procs'[q] = procs[q]]_vars

\* C10 (Spec): in pool mode the last P selections of getPooledClient, P the
\* size of the pool, chose every slot 0..P-1 (hence each exactly once),
\* whichever requests made them.
C10_RoundRobin ==
    (Mode(config) = "pool" /\ Len(selLog) = PoolSize(config))
        => Range(selLog) = 0 .. (PoolSize(config) - 1)

\* Two requests in flight at once got the two slots of the pool.
C10_Witness ==
    /\ Mode(config) = "pool"
    /\ PoolSize(config) = 2
    /\ selLog = <<0, 1>>
    /\ \A q \in {1, 2} : procs[q].pc = "executing"
    /\ procs[1].conn # procs[2].conn

Open == {c \in Conns : conns[c] = "ready"}

\* C11 (Spec), as claimed: in pool mode the connections the manager has
\* open are never more than config.pool.max.
C11_PoolWithinMax ==
    Mode(config) = "pool" => Cardinality(Open) <= config.pool.max

\* C12 (Spec): in cluster mode with no node configured no connection is ever
\* constructed or cached, no request waits for one or reaches the store, and
\* every request that asked for a client is answered from the configuration
\* error createClusterClient throws.
C12_NoNodesIsFatal ==
    (Mode(config) = "cluster" /\ config.cluster.nodes = 0) =>
        /\ created = 0
        /\ client = 0
        /\ pool = <<>>
        /\ connectionPromise = NoPromise
        /\ \A p \in Procs :
              /\ procs[p].pc \in {"idle", "done"}
              /\ procs[p].sent = <<>>
              /\ (procs[p].pc = "done" /\ procs[p].commands # <<>>) =>
                     procs[p].resp = Catch(procs[p].route, NoClusterNodes)

\* Two requests were refused with the configuration error.
C12_Witness ==
    /\ Mode(config) = "cluster" /\ config.cluster.nodes = 0
    /\ \A p \in {1, 2} :
          /\ procs[p].pc = "done"
          /\ procs[p].resp = Catch(procs[p].route, NoClusterNodes)

\* disconnect() returns without any quit() having rejected.
DisconnectResolves ==
    /\ disc.pc \in {"quitPool", "quitClient"}
    /\ disc'.pc = "idle"
    /\ \A c \in Range(disc.quitting) : conns[c] # "end"

\* C13 (SpecRequests), as claimed: the step in which disconnect() completes
\* leaves every connection the manager constructed closed, the pool empty,
\* no client and no connectionPromise.
C13_DisconnectClosesAll ==
    [][DisconnectResolves =>
          /\ \A c \in Conns : conns'[c] \in {"none", "end"}
          /\ pool' = <<>>
          /\ client' = 0
          /\ connectionPromise' = NoPromise]_vars

\* C13, the cached state alone: it is cleared when disconnect() completes.
C13_CacheCleared ==
    [][DisconnectResolves =>
          pool' = <<>> /\ client' = 0 /\ connectionPromise' = NoPromise]_vars

\* the connections the manager holds: this.pool and this.client
Held == Range(pool) \cup (IF client # 0 THEN {client} ELSE {})

\* C14 (Spec), as claimed: when the process has exited after SIGINT or
\* SIGTERM, every store connection the manager held has been closed.
C14_ClosedBeforeExit ==
    server = "exited" => \A c \in Held : conns[c] = "end"

\* The handler caught an error of the parsers, or found no command.
ParseFailed(pr) ==
    /\ pr.pc = "done"
    /\ pr.commands = <<>>
    /\ \/ pr.thrown.name = "Error"
       \/ pr.resp.body = <<formatError(<<"No command provided">>)>>

\* C15 (SpecRequests), as claimed: a request whose parsing failed is
\* answered 400 with one error envelope, and nothing of it was dispatched.
C15_ParseFailureIs400 ==
    \A p \in Procs :
        ParseFailed(procs[p]) =>
            /\ procs[p].resp.status = 400
            /\ ~procs[p].resp.array
            /\ Len(procs[p].resp.body) = 1
            /\ procs[p].resp.body[1].kind = "error"
            /\ procs[p].sent = <<>>

\* C15 on the three POST routes, where the catch block answers 400.
C15_PostRoutes ==
    \A p \in Procs :
        (ParseFailed(procs[p]) /\ procs[p].route # "/*") =>
            /\ procs[p].resp.status = 400
            /\ procs[p].resp.body[1].kind = "error"
            /\ procs[p].sent = <<>>

\* The text contains the word "blocked".
SaysBlocked(part) ==
    part \in {"' is blocked: ", "dangerous command blocked for security",
              "command blocked by configuration"}

\* C16 (SpecRequests): a request with a command validateCommand refused is
\* answered 403 with one error envelope, whose message holds the refused
\* name in upper case and the word "blocked"; this on every route and in
\* both filter modes.
C16_DenialIs403 ==
    \A p \in Procs :
        procs[p].refused # NULL =>
            /\ procs[p].pc = "done"
            /\ procs[p].resp.status = 403
            /\ ~procs[p].resp.array
            /\ Len(procs[p].resp.body) = 1
            /\ procs[p].resp.body[1].kind = "error"
            /\ \E i \in DOMAIN procs[p].resp.body[1].error :
                  procs[p].resp.body[1].error[i] = toUpperCase(procs[p].refused)
            /\ \E i \in DOMAIN procs[p].resp.body[1].error :
                  SaysBlocked(procs[p].resp.body[1].error[i])
            /\ procs[p].sent = <<>>

\* A batch in allowlist mode is refused for its second command.
C16_Witness ==
    /\ config.commandFilterMode = "allowlist"
    /\ procs[1].route = "/multi-exec"
    /\ procs[1].validated = <<"GET">>
    /\ procs[1].refused = "KEYS"
    /\ procs[1].resp.status = 403

\* what the store and its connections say when they fail
StoreMessages ==
    {"WRONGTYPE", "ERR syntax error", "Connection is closed.", "connect ECONNREFUSED",
     "Redis is already connecting/connected"}

\* C17 (SpecRequests), as claimed: no envelope of a response carries a
\* message of the store.
C17_NoRawStoreError ==
    \A p \in Procs :
        \A i \in DOMAIN procs[p].resp.body :
            procs[p].resp.body[i].kind = "error" =>
                \A j \in DOMAIN procs[p].resp.body[i].error :
                    procs[p].resp.body[i].error[j] \notin StoreMessages

\* C17 on the catch-all route, whose catch block replaces the message.
C17_PathRoute ==
    \A p \in Procs :
        procs[p].route = "/*" =>
            \A i \in DOMAIN procs[p].resp.body :
                procs[p].resp.body[i].kind = "error" =>
                    \A j \in DOMAIN procs[p].resp.body[i].error :
                        procs[p].resp.body[i].error[j] \notin StoreMessages

\* The header holds neither the token as a Bearer token nor the token as the
\* password of Basic credentials.
NoValidCredentials(header) ==
    \/ header = NoHeader
    \/ SchemeOf(header) = "other"
    \/ header.secret # config.token

TokenConfigured == config.token # NULL

\* The status of the answer: the one of the response, or for a request whose
\* handler went on to the manager the one set before the handler ran.
StatusOf(a) == IF a.dispatched THEN a.setStatus ELSE a.resp.status

\* C18 (SpecServer), as claimed: with a token configured, a command request
\* without valid credentials that the limiter let through is answered 401
\* and reaches no handler; without a token no request is answered 401.
C18_AuthBeforeHandlers ==
    \A i \in DOMAIN answered :
        (answered[i].req.route # "/health" /\ answered[i].resp.status # 429) =>
            IF TokenConfigured /\ NoValidCredentials(answered[i].req.authorization)
            THEN /\ StatusOf(answered[i]) = 401
                 /\ ~answered[i].reached
                 /\ ~answered[i].dispatched
            ELSE StatusOf(answered[i]) # 401

\* C18, what the code does: the request is marked 401 but its handler runs.
C18_MarkedNotStopped ==
    \A i \in DOMAIN answered :
        (answered[i].req.route # "/health" /\ answered[i].resp.status # 429) =>
            /\ answered[i].reached
            /\ answered[i].dispatched
            /\ answered[i].setStatus =
                  IF TokenConfigured /\ NoValidCredentials(answered[i].req.authorization)
                  THEN 401 ELSE 0

\* C19 (SpecServer), as claimed: GET /health is answered 200 with the
\* status "ok", whatever the token setting and the credentials.
C19_HealthOpen ==
    \A i \in DOMAIN answered :
        answered[i].req.route = "/health" =>
            /\ answered[i].resp.status = 200
            /\ answered[i].resp.body = <<Health>>

\* C19, the body alone: the health handler always runs.
C19_HealthBody ==
    \A i \in DOMAIN answered :
        answered[i].req.route = "/health" =>
            answered[i].reached /\ answered[i].resp.body = <<Health>>

\* C20 (SpecServer), as claimed: a configuration loaded with
\* RATE_LIMIT_ENABLED unset has rate limiting off, and then no request is
\* refused by the limiter.
C20_RateLimitOffByDefault ==
    \A env \in ServerEnvs :
        (env.RATE_LIMIT_ENABLED = Unset /\ config = loadConfig(env)) =>
            /\ ~config.rateLimit.enabled
            /\ \A i \in DOMAIN answered : answered[i].resp.status # 429

\* C20, the requests alone: none is refused under the default settings.
C20_NoneRefusedByDefault ==
    \A env \in ServerEnvs :
        (env.RATE_LIMIT_ENABLED = Unset /\ config = loadConfig(env)) =>
            \A i \in DOMAIN answered : answered[i].resp.status # 429

(***************************************************************************)
(* C21: parseMultipleCommands on a batch is all-or-nothing.  When every    *)
(* element parses, it returns one command per element, in input order,     *)
(* each the command parseBodyCommand returns for that element.  When an    *)
(* element fails, it returns no command and fails with "Invalid command at *)
(* index <i>: <reason>" for the first failing element i (counted from 0)   *)
(* and the reason parseBodyCommand gave for it.  An empty batch and a body *)
(* that is not an array fail.                                              *)
(***************************************************************************)
Failing(elems) == {i \in DOMAIN elems : ~parseBodyCommand(elems[i]).ok}

Least(S) == CHOOSE x \in S : \A y \in S : x <= y

C21_BatchAllOrNothing ==
    \A k \in DOMAIN decided :
        decided[k].fn = "parseMultipleCommands" =>
            LET body == decided[k].input
                out == decided[k].out IN
            IF body.shape \notin {"batch", "array"} THEN ~out.ok /\ out.value = <<>>
            ELSE LET elems == ElementsOf(body)
                     bad == Failing(elems) IN
                 IF elems = <<>> THEN ~out.ok /\ out.value = <<>>
                 ELSE IF bad = {}
                 THEN /\ out.ok
                      /\ Len(out.value) = Len(elems)
                      /\ \A i \in DOMAIN elems :
                            out.value[i] = parseBodyCommand(elems[i]).value
                 ELSE /\ ~out.ok
                      /\ out.value = <<>>
                      /\ out.error =
                            <<"Invalid command at index ", ToString(Least(bad) - 1), ": ">>
                            \o parseBodyCommand(elems[Least(bad)]).error

\* A batch whose first element parses and whose second is an empty array:
\* the error names index 1 and no command is returned.
C21_Witness ==
    \E k \in DOMAIN decided :
        /\ decided[k].fn = "parseMultipleCommands"
        /\ decided[k].input.shape = "batch"
        /\ Len(decided[k].input.elems) = 2
        /\ parseBodyCommand(decided[k].input.elems[1]).ok
        /\ ~decided[k].out.ok
        /\ decided[k].out.value = <<>>
        /\ decided[k].out.error = <<"Invalid command at index ", "1", ": ",
                                    "Empty command array">>

(***************************************************************************)
(* C22: the two argument coercions stay distinct.  In the hybrid form (the *)
(* command from the path, the args from a body array) a text and a number  *)
(* pass through unchanged, null becomes the empty text, any other element  *)
(* becomes its JSON text, and the args handed to redisClient.execute are   *)
(* the coerced body elements, one per element, in order.  In the body      *)
(* array form of parseBodyCommand a null argument becomes the text "null". *)
(***************************************************************************)
HybridCoerced(x) ==
    CASE x = NULL -> ""
      [] x = JsonTrue -> "true"
      [] x = JsonObject -> "{}"
      [] OTHER -> x

C22_CoercionsDistinct ==
    \A k \in DOMAIN decided :
        LET input == decided[k].input
            out == decided[k].out IN
        /\ ( /\ decided[k].fn = "/*"
             /\ input.body.shape = "array"
             /\ input.body.items # <<>>
             /\ out.kind = "call" )
           => /\ out.op = "execute"
              /\ Len(out.commands) = 1
              /\ Tail(out.commands[1]) =
                    [i \in DOMAIN input.body.items |-> HybridCoerced(input.body.items[i])]
        /\ ( /\ decided[k].fn = "parseBodyCommand"
             /\ input.shape = "array"
             /\ out.ok )
           => \A i \in 2 .. Len(input.items) :
                 input.items[i] = NULL => out.value[i] = "null"

\* The hybrid form with a null and a text in the body: the args dispatched
\* are the empty text and the text.
C22_Witness ==
    \E k \in DOMAIN decided :
        /\ decided[k].fn = "/*"
        /\ decided[k].input.body.shape = "array"
        /\ decided[k].input.body.items = <<NULL, "get">>
        /\ decided[k].out.kind = "call"
        /\ decided[k].out.commands = << <<"GET", "", "get">> >>

(***************************************************************************)
(* C23: serializeResult yields a JSON-safe value for every value built     *)
(* from null, undefined, text, number, bigint, Buffer and nested arrays.   *)
(* null and undefined become null; an array becomes an array of the same   *)
(* length whose elements are the serialized elements, in order; a bigint   *)
(* becomes the number of the same value; a text (the "OK" of the store     *)
(* among them) and a number are returned unchanged; and at no depth does   *)
(* the output hold undefined, a Buffer or a bigint.                        *)
(***************************************************************************)
RECURSIVE JsonSafe(_)
JsonSafe(value) ==
    \/ value.t \in {"null", "text", "number"}
    \/ /\ value.t = "array"
       /\ \A i \in DOMAIN value.items : JsonSafe(value.items[i])

C23_SerializeJsonSafe ==
    \A k \in DOMAIN decided :
        decided[k].fn = "serializeResult" =>
            LET value == decided[k].input
                out == decided[k].out IN
            /\ JsonSafe(out)
            /\ value.t \in {"null", "undefined"} => out.t = "null"
            /\ value.t = "array" =>
                  /\ out.t = "array"
                  /\ Len(out.items) = Len(value.items)
                  /\ \A i \in DOMAIN value.items :
                        out.items[i] = serializeResult(value.items[i])
            /\ value.t = "bigint" => out.t = "number" /\ out.n = value.n
            /\ value.t \in {"text", "number"} => out = value

\* A nested array holding undefined, a bigint and a Buffer at depth two.
C23_Witness ==
    \E k \in DOMAIN decided :
        /\ decided[k].fn = "serializeResult"
        /\ decided[k].input.t = "array"
        /\ Len(decided[k].input.items) = 2
        /\ decided[k].input.items[1].t = "bigint"
        /\ decided[k].input.items[2].t = "array"
        /\ decided[k].input.items[2].items[1].t = "undefined"
        /\ decided[k].out.items[1].t = "number"
        /\ decided[k].out.items[2].items[1].t = "null"

(***************************************************************************)
(* C24: in pool mode a selected connection found not ready is reconnected  *)
(* inline and then returned, also when two concurrent calls select the     *)
(* same not-ready slot: no call of getPooledClient fails because the       *)
(* connection of its slot is already being connected by another call.      *)
(***************************************************************************)
C24_ReconnectedInline ==
    \A p \in Procs :
        (Mode(config) = "pool" /\ procs[p].pc = "done") =>
            procs[p].thrown # AlreadyConnecting

\* What does hold: a call that returns hands out the connection it selected,
\* ready at that moment, and every selection advances the cursor by one.
C24_ReturnsSelectedReady ==
    [][\A p \in Procs :
          /\ ( /\ Mode(config) = "pool"
               /\ procs[p].pc # "executing"
               /\ procs'[p].pc = "executing" )
             => /\ conns'[procs'[p].conn] = "ready"
                /\ procs[p].pc = "reconnecting" => procs'[p].conn = procs[p].conn
          /\ ( /\ Mode(config) = "pool"
               /\ procs[p].pc # "reconnecting"
               /\ procs'[p].pc = "reconnecting" )
             => /\ procs'[p].conn = pool'[selLog'[Len(selLog')] + 1]
                /\ poolIndex' = (selLog'[Len(selLog')] + 1) % Len(pool')]_vars

(***************************************************************************)
(* C25: at every selection made by getPooledClient the pool holds at least *)
(* max(config.pool.min, 1) connections, the cursor the selection reads and *)
(* the cursor it leaves are integers from 0 to pool.length - 1, and the    *)
(* connection selected is one of the pool; under every interleaving of     *)
(* getClient calls, failed initializations and disconnect().               *)
(***************************************************************************)
\* getPooledClient of request p makes its selection in this step
Selects(p) ==
    /\ Mode(config) = "pool"
    /\ procs[p].pc \in {"idle", "initializing"}
    /\ \/ procs'[p].pc \in {"executing", "reconnecting"}
       \/ procs'[p].pc = "done" /\ procs'[p].thrown = AlreadyConnecting

C25_SelectionInBounds ==
    [][\A p \in Procs :
          Selects(p) =>
              /\ Len(pool') >= Max(config.pool.min, 1)
              /\ poolIndex \in 0 .. Len(pool') - 1
              /\ poolIndex' \in 0 .. Len(pool') - 1
              /\ procs'[p].pc # "done" => procs'[p].conn = pool'[poolIndex + 1]]_vars

\* A selection on a pool created anew after the first pool (connections 3
\* and 4), with the cursor where the earlier selections left it.
C25_Witness ==
    /\ Mode(config) = "pool"
    /\ pool = <<3, 4>>
    /\ poolIndex = 0
    /\ \E p \in Procs : procs[p].pc = "executing" /\ procs[p].conn = 4

(***************************************************************************)
(* C26: on connect failure the retry strategy waits min(attempt * 200,     *)
(* 2000) ms before attempt number `attempt` and abandons after 3 attempts, *)
(* and only then does the getClient call fail with a connection error:     *)
(* in the step in which a call awaiting a connection fails, the strategy   *)
(* has been asked more than 3 times for that connection and the            *)
(* connection has ended.                                                   *)
(***************************************************************************)
C26_FailsAfterRetries ==
    [][\A c \in Conns, q \in Procs :
          ( /\ Waits(q, c) \/ Initializes(q, c)
            /\ procs'[q].pc = "done"
            /\ procs'[q].thrown = ConnectionError )
          => /\ Len(decided'[c]) > 3
             /\ conns'[c] = "end"]_vars

\* What does hold: the delays are min(attempt * 200, 2000) ms for the
\* attempts 1, 2 and 3, the fourth call of the strategy abandons, a
\* connection ends only then, and after a failed call the manager holds no
\* attempt, so that the next call starts a fresh one.
C26_RetryPolicy ==
    \A c \in Conns :
        /\ Len(decided[c]) <= 4
        /\ \A i \in DOMAIN decided[c] :
              /\ decided[c][i].times = i
              /\ i <= 3 => /\ decided[c][i].delay.retry
                           /\ decided[c][i].delay.ms = i * 200
                           /\ decided[c][i].delay.ms <= 2000
              /\ i > 3 => ~decided[c][i].delay.retry
        /\ conns[c] = "end" <=> Len(decided[c]) = 4

C26_NextCallStartsFresh ==
    [][\A c \in Conns, q \in Procs :
          ( /\ Waits(q, c) \/ Initializes(q, c)
            /\ procs'[q].pc = "done"
            /\ procs'[q].thrown = ConnectionError )
          => /\ connectionPromise' = NoPromise
             /\ client' = client
             /\ pool' = pool]_vars

\* The strategy abandoned a connection after its third retry.
C26_Abandoned ==
    \E c \in Conns : conns[c] = "end" /\ Len(decided[c]) = 4

(***************************************************************************)
(* C27: for every request on every route, whichever of the path, a body    *)
(* array, a body object or the hybrid form supplies the command, the names *)
(* handed to the store client are, one for one and in order, the           *)
(* upper-cased names validateCommand decided on for that request, and      *)
(* these are the names of the commands the handler parsed: no name is      *)
(* dispatched that was not checked, and none is checked in place of        *)
(* another.                                                                *)
(***************************************************************************)
C27_CheckedNameIsDispatched ==
    \A p \in Procs :
        LET pr == procs[p] IN
        pr.pc = "executing" =>
            /\ Len(pr.sent) = Len(pr.commands)
            /\ Len(pr.validated) = Len(pr.commands)
            /\ \A i \in DOMAIN pr.commands :
                  /\ pr.validated[i] = pr.commands[i][1]
                  /\ pr.sent[i] = toUpperCase(pr.validated[i])

\* The hybrid form: the name comes from the path, the argument from the body.
C27_Witness ==
    \E p \in Procs :
        /\ procs[p].route = "/*"
        /\ procs[p].pc = "executing"
        /\ procs[p].commands = << <<"GET", "arg">> >>
        /\ procs[p].sent = <<"GET">>

(***************************************************************************)
(* C28: in all three modes, every client getClient returns is ready at the *)
(* moment it is returned; in particular, in single mode, a getClient call  *)
(* made after the established connection dropped does not hand out the     *)
(* client that is no longer ready.                                         *)
(***************************************************************************)
C28_ReturnedClientReady ==
    [][\A p \in Procs :
          (procs[p].pc # "executing" /\ procs'[p].pc = "executing")
              => conns'[procs'[p].conn] = "ready"]_vars

(***************************************************************************)
(* C29: a request that fails parsing or is denied by the filter leaves the *)
(* connection manager as it was: no connection attempt is started, no      *)
(* client or pool is created, the pool cursor stays.  No connection exists *)
(* before the first request, and a connection is constructed only in the   *)
(* step of a request whose commands all passed validateCommand.            *)
(***************************************************************************)
Received(p) == procs[p].pc = "idle" /\ procs'[p].pc # "idle"

Denied(pr) ==
    \/ pr.refused # NULL
    \/ pr.commands # <<>> /\ validateCommands(config, pr.commands) # Allowed

C29_RejectedLeavesManager ==
    /\ created = 0 /\ client = 0 /\ pool = <<>> /\ connectionPromise = NoPromise
    /\ [][\A p \in Procs :
            (Received(p) /\ (ParseFailed(procs'[p]) \/ Denied(procs'[p])))
                => UNCHANGED <<client, connectionPromise, pool, poolIndex, conns, created>>]_vars
    /\ [][created' # created =>
            \E p \in Procs :
                /\ Received(p)
                /\ procs'[p].commands # <<>>
                /\ validateCommands(config, procs'[p].commands) = Allowed]_vars

\* Two requests were answered, at least one of them denied with 403, and no
\* connection has been constructed.
C29_Witness ==
    /\ served = 2
    /\ created = 0
    /\ \E p \in Procs : procs[p].pc = "done" /\ procs[p].resp.status = 403

\* an initializePool call still awaiting its connects created c
BeingInitialized(c) ==
    \E q \in Procs : procs[q].pc = "initializing" /\ c \in Range(procs[q].init)

(***************************************************************************)
(* C30, as claimed: every connection the manager opened and that is still  *)
(* open is referenced by the manager, as this.client or as a slot of       *)
(* this.pool, or belongs to an initialization still in progress, or is     *)
(* being closed by disconnect().                                           *)
(***************************************************************************)
C30_NoOrphanedConnection ==
    \A c \in Open :
        \/ c \in Held
        \/ BeingInitialized(c)
        \/ c \in Range(disc.quitting)
====
